---- MODULE Spec2Model ----
(***************************************************************************)
(* The notes backend: the login handler (controllers/login.js) and the     *)
(* notes resource handlers (controllers/notes.js) as a state machine over  *)
(* the two document stores.  An asynchronous handler is cut at the calls it *)
(* awaits: one action is one awaited call together with the synchronous    *)
(* code that runs before it is issued and after it returns.                *)
(* The store, the schemas and the error-translating middleware are not     *)
(* part of the controllers; they are modelled from the specification and   *)
(* from the documented behaviour of the libraries the controllers call.    *)
(***************************************************************************)
EXTENDS Integers, Sequences, FiniteSets, TLC

VARIABLES
    notes,      \* the Note collection: a set of documents
    nextId,     \* number of note ids the store has issued so far
    users,      \* per user id: the notes list of the stored user
    reqs        \* per handler slot: the request in flight, or the last one

vars == <<notes, nextId, users, reqs>>

----------------------------------------------------------------------------
(* Bounds *)

\* note ids ever issued, those of the notes present at the start included
MaxNotes == 2
\* handlers in flight at once under ConcSpec
MaxConc == 2
\* length of a well-formed identifier (24 hexadecimal digits, scaled down)
IdLen == 2

----------------------------------------------------------------------------
(* Optional values: undefined / null is None, a present value v is Some(v) *)

None == <<>>
Some(v) == <<v>>
Val(o) == o[1]

----------------------------------------------------------------------------
(* Identifiers *)

HexChars == {"0", "1"}

RECURSIVE IdDigits(_, _)
IdDigits(k, n) ==
    IF n = 0 THEN <<>>
    ELSE Append(IdDigits(k \div 2, n - 1), IF k % 2 = 0 THEN "0" ELSE "1")

\* the k-th identifier the store issues
IdOf(k) == IdDigits(k, IdLen)

\* the cast the store applies to an id parameter
isValidObjectId(id) ==
    /\ Len(id) = IdLen
    /\ \A i \in 1..Len(id) : id[i] \in HexChars

\* one character short, as in the repository's test, and one with a
\* character outside the alphabet
MalformedIds ==
    { SubSeq(IdOf(1), 1, IdLen - 1), [IdOf(1) EXCEPT ![IdLen] = "z"] }

RequestIds == { IdOf(k) : k \in 1..(MaxNotes + 1) } \cup MalformedIds

----------------------------------------------------------------------------
(* Users, passwords and tokens *)

UserIds == {"u1", "u2"}

UserDoc(u) ==
    IF u = "u1"
    THEN [id |-> "u1", username |-> "root", name |-> "Superuser",
          passwordHash |-> <<"bcrypt", "secret">>]
    ELSE [id |-> "u2", username |-> "alice", name |-> "Alice",
          passwordHash |-> <<"bcrypt", "wonderland">>]

Usernames == {"root", "alice", "nobody"}
Passwords == {Some("secret"), Some("wonderland"), None}

SECRET == "SECRET"

Jwts == {"jwt-root", "jwt-alice", "jwt-ghost", "jwt-noid", "jwt-forged"}

\* the claims a token carries; "jwt-ghost" names a user that is not stored,
\* "jwt-noid" is signed with the secret but carries no id
JwtPayload(t) ==
    CASE t = "jwt-root"   -> [username |-> "root",  id |-> Some("u1")]
      [] t = "jwt-alice"  -> [username |-> "alice", id |-> Some("u2")]
      [] t = "jwt-ghost"  -> [username |-> "ghost", id |-> Some("u9")]
      [] t = "jwt-noid"   -> [username |-> "root",  id |-> None]
      [] OTHER            -> [username |-> "root",  id |-> Some("u1")]

JwtKey(t) == IF t = "jwt-forged" THEN "OTHER-KEY" ELSE SECRET

\* an authorization header is a sequence of atoms: the word Bearer, a
\* space, a token, other text
AuthHeaders ==
    {None}
    \cup { Some(<<"Bearer", " ", t>>) : t \in Jwts \ {"jwt-alice"} }
    \cup { Some(<<"Bearer", "jwt-root">>), Some(<<"jwt-root">>) }

Contents == {"HTML is easy", "async/await simplifies making async calls"}
BodyContents == {None, Some("")} \cup { Some(c) : c \in Contents }
BodyImportants == {None, Some(TRUE)}

----------------------------------------------------------------------------
(* String helpers over atom sequences *)

StartsWith(h, p) == Len(h) >= Len(p) /\ SubSeq(h, 1, Len(p)) = p

IndexOf(h, p) ==
    LET hits == { i \in 1..Len(h) :
                    i + Len(p) - 1 <= Len(h) /\ SubSeq(h, i, i + Len(p) - 1) = p }
    IN  IF hits = {} THEN 0 ELSE CHOOSE i \in hits : \A j \in hits : i <= j

ReplaceFirst(h, p, q) ==
    LET i == IndexOf(h, p)
    IN  IF i = 0 THEN h
        ELSE SubSeq(h, 1, i - 1) \o q \o SubSeq(h, i + Len(p), Len(h))

----------------------------------------------------------------------------
(* Requests and responses *)

\* a handler slot.  status = 0: nothing has been sent yet.  notesOut holds
\* the notes of the response body, who / token the login body, error the
\* error body.  after collects what the handler went on to do once a 400 or
\* a 401 had been sent for the request.
Idle ==
    [op |-> "idle", pc |-> "idle", id |-> <<>>, auth |-> None,
     content |-> None, important |-> None, username |-> None,
     password |-> None, user |-> None, saved |-> None, status |-> 0,
     notesOut |-> {}, token |-> None, who |-> None, error |-> None,
     after |-> {}]

New(op) == [Idle EXCEPT !.op = op, !.pc = "done"]

Free(s) == reqs[s].pc \in {"idle", "done"}

\* the first response sent is the one the client receives; a later send on
\* the same response object cannot replace it
Send(r, st, ns, tk, wh, er) ==
    IF r.status = 0
    THEN [r EXCEPT !.status = st, !.notesOut = ns, !.token = tk,
                   !.who = wh, !.error = er]
    ELSE [r EXCEPT !.after = @ \cup {"secondResponse"}]

\* record a processing step taken after a 400 / 401 went out
Did(r, ev) ==
    IF r.status \in {400, 401} THEN [r EXCEPT !.after = @ \cup {ev}] ELSE r

\* the error-to-status translator behind next(error)
errorHandler(r, name) ==
    CASE name = "CastError" ->
            Send(r, 400, {}, None, None, Some("malformatted id"))
      [] name = "ValidationError" ->
            Send(r, 400, {}, None, None, Some("validation failed"))
      [] name = "JsonWebTokenError" ->
            Send(r, 401, {}, None, None, Some("invalid token"))
      [] OTHER ->
            IF r.status = 0
            THEN Send(r, 500, {}, None, None, Some("server fault"))
            ELSE r

\* a catch block that answers by itself instead of forwarding the error
CatchAnswers500(r, name) ==
    Send(Did(r, "thrown"), 500, {}, None, None, Some("server fault"))

\* catch (error) { next(error) }
Catch(r, name) == errorHandler(Did(r, "thrown"), name)

----------------------------------------------------------------------------
(* controllers/login.js *)

bcryptCompare(password, hash) == hash = <<"bcrypt", password>>

jwtSign(payload, key) ==
    CHOOSE t \in Jwts : JwtPayload(t) = payload /\ JwtKey(t) = key

findOneUser(username) ==
    IF \E u \in UserIds : UserDoc(u).username = username
    THEN Some(UserDoc(CHOOSE u \in UserIds : UserDoc(u).username = username))
    ELSE None

\* catch (error) { next(error); response.status(400); }
LoginCatch(r, name) == Did(Catch(r, name), "secondResponse")

\* from the credentials check to the response: the 401, the token, the 200
LoginContinue(r, user, passwordCorrect) ==
    LET r1 == IF ~(user # None /\ passwordCorrect)
              THEN Send(r, 401, {}, None, None,
                        Some("username or password is invalid"))
              ELSE r
    IN  IF user = None
        THEN LoginCatch(r1, "TypeError")
        ELSE
          LET userForToken == [username |-> Val(user).username,
                               id |-> Some(Val(user).id)]
              token == jwtSign(userForToken, SECRET)
              r2 == Did(r1, "tokenBuilt")
              r3 == Send(r2, 200, {}, Some(token),
                         Some([username |-> Val(user).username,
                               name |-> Val(user).name]), None)
          IN  IF r1.status # 0
              THEN LoginCatch(r3, "ERR_HTTP_HEADERS_SENT")
              ELSE r3

\* await User.findOne({ username }).  Without a user nothing more is awaited
\* and the handler runs to its end; with one it issues bcrypt.compare.
LoginFindUser(s, username, password) ==
    /\ Free(s)
    /\ LET r0   == [New("login") EXCEPT !.username = Some(username),
                                        !.password = password]
           user == findOneUser(username)
       IN  reqs' = [reqs EXCEPT ![s] =
                IF user = None
                THEN LoginContinue(r0, None, FALSE)
                ELSE [r0 EXCEPT !.user = user, !.pc = "compare"]]
    /\ UNCHANGED <<notes, nextId, users>>

\* await bcrypt.compare(password, user.passwordHash), which fails when no
\* password was given, and the rest of the handler
LoginCompare(s) ==
    /\ reqs[s].op = "login" /\ reqs[s].pc = "compare"
    /\ LET r == [reqs[s] EXCEPT !.pc = "done"]
       IN  reqs' = [reqs EXCEPT ![s] =
                IF r.password = None
                THEN LoginCatch(r, "Error")
                ELSE LoginContinue(r, r.user,
                        bcryptCompare(Val(r.password),
                                      Val(r.user).passwordHash))]
    /\ UNCHANGED <<notes, nextId, users>>

----------------------------------------------------------------------------
(* controllers/notes.js *)

\* replaces "Bearer" and leaves the space in front of the token
getTokenFromKeepsSpace(authorization) ==
    IF authorization # None /\ Val(authorization) # <<>>
       /\ StartsWith(Val(authorization), <<"Bearer">>)
    THEN Some(ReplaceFirst(Val(authorization), <<"Bearer">>, <<>>))
    ELSE None

\* takes the token from any header, whatever its scheme
getTokenFromAnyScheme(authorization) ==
    IF authorization # None /\ Val(authorization) # <<>>
    THEN Some(ReplaceFirst(Val(authorization), <<"Bearer", " ">>, <<>>))
    ELSE None

getTokenFrom(authorization) ==
    IF authorization # None /\ Val(authorization) # <<>>
       /\ StartsWith(Val(authorization), <<"Bearer">>)
    THEN Some(ReplaceFirst(Val(authorization), <<"Bearer", " ">>, <<>>))
    ELSE None

\* jwt.verify succeeds on a well-formed token signed with the secret
jwtVerifies(token) ==
    /\ token # None
    /\ Len(Val(token)) = 1
    /\ Val(token)[1] \in Jwts
    /\ JwtKey(Val(token)[1]) = SECRET

jwtDecoded(token) == JwtPayload(Val(token)[1])

findNote(id) == { n \in notes : n.id = id }

\* populate("user", {username: 1, name: 1})
Populate(n) ==
    [n EXCEPT !.user = IF n.user # None /\ Val(n.user) \in UserIds
                       THEN Some([id |-> Val(n.user),
                                  username |-> UserDoc(Val(n.user)).username,
                                  name |-> UserDoc(Val(n.user)).name])
                       ELSE None]

ListNotes(s) ==
    /\ Free(s)
    /\ reqs' = [reqs EXCEPT ![s] =
                  Send(New("list"), 200, { Populate(n) : n \in notes },
                       None, None, None)]
    /\ UNCHANGED <<notes, nextId, users>>

GetNote(s, id) ==
    /\ Free(s)
    /\ LET r0 == [New("get") EXCEPT !.id = id]
       IN  reqs' = [reqs EXCEPT ![s] =
                IF ~isValidObjectId(id) THEN Catch(r0, "CastError")
                ELSE IF findNote(id) # {}
                     THEN Send(r0, 200, findNote(id), None, None, None)
                     ELSE Send(r0, 404, {}, None, None, None)]
    /\ UNCHANGED <<notes, nextId, users>>

\* jwt.verify, the id check, User.findById and the construction of the note.
\* A creation that will reach the store is admitted only while fewer than
\* MaxNotes ids are issued or about to be.
PostFindUser(s, auth, content, important) ==
    /\ Free(s)
    /\ LET r0 == [New("post") EXCEPT !.auth = auth, !.content = content,
                                     !.important = important]
           token == getTokenFrom(auth)
       IN  IF ~jwtVerifies(token)
           THEN reqs' = [reqs EXCEPT ![s] = Catch(r0, "JsonWebTokenError")]
           ELSE
             LET decodedToken == jwtDecoded(token)
                 r1 == IF decodedToken.id = None
                       THEN Send(r0, 401, {}, None, None, Some("invalid token"))
                       ELSE r0
                 r2 == Did(r1, "storeRead")
                 user == IF decodedToken.id # None
                            /\ Val(decodedToken.id) \in UserIds
                         THEN Some([id |-> Val(decodedToken.id),
                                    notes |-> users[Val(decodedToken.id)].notes])
                         ELSE None
             IN  IF user = None
                 THEN reqs' = [reqs EXCEPT ![s] = Catch(r2, "TypeError")]
                 ELSE /\ nextId + Cardinality({ t \in DOMAIN reqs :
                                        reqs[t].pc = "saveNote" }) < MaxNotes
                      /\ reqs' = [reqs EXCEPT ![s] =
                                    [r2 EXCEPT !.user = user, !.pc = "saveNote"]]
    /\ UNCHANGED <<notes, nextId, users>>

\* the schema's validation of a new note: content is required
noteValid(content) == content # None /\ Val(content) # ""

PostSaveNote(s) ==
    /\ reqs[s].op = "post" /\ reqs[s].pc = "saveNote"
    /\ LET r == reqs[s]
       IN  IF ~noteValid(r.content)
           THEN /\ reqs' = [reqs EXCEPT ![s] =
                              [Catch(r, "ValidationError") EXCEPT !.pc = "done"]]
                /\ UNCHANGED <<notes, nextId>>
           ELSE
             LET savedNote == [id |-> IdOf(nextId + 1),
                               content |-> r.content,
                               important |-> Some(r.important = Some(TRUE)),
                               user |-> Some(Val(r.user).id)]
             IN  /\ notes' = notes \cup {savedNote}
                 /\ nextId' = nextId + 1
                 /\ reqs' = [reqs EXCEPT ![s] =
                       [r EXCEPT !.saved = Some(savedNote),
                                 !.user = Some([Val(r.user) EXCEPT
                                     !.notes = Append(@, savedNote.id)]),
                                 !.pc = "saveUser"]]
    /\ UNCHANGED users

\* another request has saved the user since this handler read it with
\* User.findById: the stored list is no longer the one the handler appended to
savedInBetween(doc) ==
    users[doc.id].notes # SubSeq(doc.notes, 1, Len(doc.notes) - 1)

\* await user.save() and what follows it.  The handler's copy of the user,
\* whose notes were replaced as a whole by the list it read plus the new id,
\* is written and the 201 sent.  When the user was saved in between, the
\* store client either writes the copy all the same, or, saving a replaced
\* list only onto the version of the document that was read, rejects; the
\* catch then forwards the error and the stored user stays as it is.
PostSaveUser(s) ==
    /\ reqs[s].op = "post" /\ reqs[s].pc = "saveUser"
    /\ LET r == reqs[s]
           doc == Val(r.user)
       IN  \/ /\ users' = [users EXCEPT ![doc.id] = [notes |-> doc.notes]]
              /\ reqs' = [reqs EXCEPT ![s] =
                     [Send(r, 201, {Val(r.saved)}, None, None, None)
                         EXCEPT !.pc = "done"]]
           \/ /\ savedInBetween(doc)
              /\ reqs' = [reqs EXCEPT ![s] =
                     [Catch(r, "VersionError") EXCEPT !.pc = "done"]]
              /\ UNCHANGED users
    /\ UNCHANGED <<notes, nextId>>

\* answers 404 when there is nothing to delete
DeleteNoteChecksExistence(s, id) ==
    /\ Free(s)
    /\ LET r0 == [New("delete") EXCEPT !.id = id]
       IN  IF ~isValidObjectId(id)
           THEN /\ reqs' = [reqs EXCEPT ![s] = Catch(r0, "CastError")]
                /\ UNCHANGED notes
           ELSE /\ notes' = notes \ findNote(id)
                /\ reqs' = [reqs EXCEPT ![s] =
                              Send(r0, IF findNote(id) = {} THEN 404 ELSE 204,
                                   {}, None, None, None)]
    /\ UNCHANGED <<nextId, users>>

DeleteNote(s, id) ==
    /\ Free(s)
    /\ LET r0 == [New("delete") EXCEPT !.id = id]
       IN  IF ~isValidObjectId(id)
           THEN /\ reqs' = [reqs EXCEPT ![s] = Catch(r0, "CastError")]
                /\ UNCHANGED notes
           ELSE /\ notes' = notes \ findNote(id)
                /\ reqs' = [reqs EXCEPT ![s] =
                              Send(r0, 204, {}, None, None, None)]
    /\ UNCHANGED <<nextId, users>>

\* one field of the update document: a field the body does not carry is
\* undefined in the update and is dropped from it, so the stored value stays
updatedField(old, new) == IF new = None THEN old ELSE new

\* Note.findByIdAndUpdate(id, note, { new: true }); no validation is run
PutNote(s, id, content, important) ==
    /\ Free(s)
    /\ LET r0 == [New("put") EXCEPT !.id = id, !.content = content,
                                    !.important = important]
       IN  IF ~isValidObjectId(id)
           THEN /\ reqs' = [reqs EXCEPT ![s] = Catch(r0, "CastError")]
                /\ UNCHANGED notes
           ELSE IF findNote(id) = {}
           THEN /\ reqs' = [reqs EXCEPT ![s] =
                              Send(r0, 200, {}, None, None, None)]
                /\ UNCHANGED notes
           ELSE LET old == CHOOSE n \in notes : n.id = id
                    updatedNote ==
                        [old EXCEPT
                           !.content = updatedField(@, content),
                           !.important = updatedField(@, important)]
                IN  /\ notes' = (notes \ {old}) \cup {updatedNote}
                    /\ reqs' = [reqs EXCEPT ![s] =
                                  Send(r0, 200, {updatedNote}, None, None, None)]
    /\ UNCHANGED <<nextId, users>>

----------------------------------------------------------------------------
(* Specifications *)

\* the notes the repository's tests put into the store before each test,
\* inserted directly and without an owner
initialNotes ==
    { [id |-> IdOf(1), content |-> Some("HTML is easy"),
       important |-> Some(FALSE), user |-> None],
      [id |-> IdOf(2), content |-> Some("Browser can execute only JavaScript"),
       important |-> Some(TRUE), user |-> None] }

\* the store is empty, or holds the notes inserted before each test
InitStores ==
    /\ notes \in {{}, initialNotes}
    /\ nextId = Cardinality(notes)
    /\ users = [u \in UserIds |-> [notes |-> <<>>]]

\* one client: a request is answered before the next one is sent
Init == InitStores /\ reqs = [s \in {1} |-> Idle]

Next ==
    \/ \E s \in DOMAIN reqs, u \in Usernames, p \in Passwords :
          LoginFindUser(s, u, p)
    \/ \E s \in DOMAIN reqs : LoginCompare(s)
    \/ \E s \in DOMAIN reqs : ListNotes(s)
    \/ \E s \in DOMAIN reqs, id \in RequestIds : GetNote(s, id)
    \/ \E s \in DOMAIN reqs, a \in AuthHeaders, c \in BodyContents,
          i \in BodyImportants : PostFindUser(s, a, c, i)
    \/ \E s \in DOMAIN reqs : PostSaveNote(s)
    \/ \E s \in DOMAIN reqs : PostSaveUser(s)
    \/ \E s \in DOMAIN reqs, id \in RequestIds : DeleteNote(s, id)
    \/ \E s \in DOMAIN reqs, id \in RequestIds, c \in BodyContents,
          i \in BodyImportants : PutNote(s, id, c, i)

Spec == Init /\ [][Next]_vars

\* concurrent note creations by authenticated users
ValidAuthHeaders == { Some(<<"Bearer", " ", t>>) : t \in {"jwt-root", "jwt-alice"} }

InitC == InitStores /\ reqs = [s \in 1..MaxConc |-> Idle]

NextC ==
    \/ \E s \in DOMAIN reqs, a \in ValidAuthHeaders, c \in Contents :
          PostFindUser(s, a, Some(c), None)
    \/ \E s \in DOMAIN reqs : PostSaveNote(s)
    \/ \E s \in DOMAIN reqs : PostSaveUser(s)

ConcSpec == InitC /\ [][NextC]_vars

----------------------------------------------------------------------------
(* Properties *)

WellFormedIds == { IdOf(k) : k \in 1..(MaxNotes + 1) }

NonEmptyContents == { Some(c) : c \in Contents }

\* headers whose token is absent, malformed or not signed with the secret
BadTokenHeaders ==
    {None, Some(<<"Bearer", " ", "jwt-forged">>),
     Some(<<"Bearer", "jwt-root">>), Some(<<"jwt-root">>)}

\* C1: a POST /api/notes with a valid token of an existing user and a
\* non-empty content adds exactly one note over the whole handler, answers
\* 201 with the created note, and a list that follows contains a note with
\* that content.
C1_ValidCreateAddsOne ==
    [][\A s \in DOMAIN reqs :
         LET r == reqs[s]
             q == reqs'[s]
         IN  /\ (q.op = "post" /\ q.auth \in ValidAuthHeaders
                  /\ q.content \in NonEmptyContents /\ q # r)
                 => /\ Free(s) => (q.pc = "saveNote" /\ notes' = notes)
                    /\ r.pc = "saveNote"
                         => /\ q.pc = "saveUser"
                            /\ Cardinality(notes') = Cardinality(notes) + 1
                    /\ r.pc = "saveUser"
                         => /\ q.pc = "done" /\ q.status = 201
                            /\ q.notesOut = {Val(q.saved)}
                            /\ Val(q.saved).content = q.content
                            /\ Val(q.saved) \in notes'
                            /\ notes' = notes
             /\ (r.op = "post" /\ r.pc = "done" /\ r.status = 201
                  /\ q.op = "list")
                 => \E n \in q.notesOut : n.content = r.content
      ]_vars

C1_Witness ==
    \E s \in DOMAIN reqs :
        /\ reqs[s].op = "post" /\ reqs[s].pc = "done"
        /\ reqs[s].auth \in ValidAuthHeaders
        /\ reqs[s].status = 201
        /\ Val(reqs[s].saved) \in notes

\* C2: a POST /api/notes whose body has no content never changes the number
\* of stored notes, whatever else the request carries, and ends with a 400.
C2_NoContentIs400 ==
    [][\A s \in DOMAIN reqs :
         LET q == reqs'[s]
         IN  (q.op = "post" /\ q.content = None /\ q # reqs[s])
                 => /\ Cardinality(notes') = Cardinality(notes)
                    /\ q.pc = "done" => q.status = 400
      ]_vars

\* C3: a POST /api/notes whose token is absent, malformed or fails
\* verification ends with a 401 and leaves the note store and every user's
\* notes list unchanged.
C3_BadTokenIs401 ==
    [][\A s \in DOMAIN reqs :
         LET q == reqs'[s]
         IN  (q.op = "post" /\ q.auth \in BadTokenHeaders /\ q # reqs[s])
                 => /\ q.pc = "done" /\ q.status = 401
                    /\ notes' = notes /\ users' = users
      ]_vars

C3_Witness ==
    \E s \in DOMAIN reqs :
        /\ reqs[s].op = "post" /\ reqs[s].pc = "done"
        /\ reqs[s].auth = Some(<<"Bearer", " ", "jwt-forged">>)
        /\ reqs[s].status = 401
        /\ notes # {}

\* C4 as stated: after DELETE of a stored note the count is one less and
\* its content is no longer listed; a second DELETE of the same id also
\* answers 204 and leaves the store unchanged.
C4_DeleteRemovesContent ==
    [][\A s \in DOMAIN reqs :
         LET r == reqs[s]
             q == reqs'[s]
         IN  /\ (q.op = "delete" /\ findNote(q.id) # {})
                 => /\ q.status = 204
                    /\ Cardinality(notes') = Cardinality(notes) - 1
                    /\ \A d \in findNote(q.id) :
                          \A n \in notes' : n.content # d.content
             /\ (r.op = "delete" /\ r.status = 204
                  /\ q.op = "delete" /\ q.id = r.id)
                 => (q.status = 204 /\ notes' = notes)
      ]_vars

\* C4 as amended: after DELETE of a stored note exactly that note is gone
\* (the count is one less, no stored note has its id, and its content is
\* still listed only if another stored note carries the same content); a
\* second DELETE of the same id also answers 204 and leaves the store
\* unchanged.
C4_DeleteRemovesNote ==
    [][\A s \in DOMAIN reqs :
         LET r == reqs[s]
             q == reqs'[s]
         IN  /\ (q.op = "delete" /\ findNote(q.id) # {})
                 => /\ q.status = 204
                    /\ Cardinality(notes') = Cardinality(notes) - 1
                    /\ \A n \in notes' : n.id # q.id
                    /\ \A d \in findNote(q.id) :
                          (\E n \in notes' : n.content = d.content)
                             => \E m \in notes \ {d} : m.content = d.content
             /\ (r.op = "delete" /\ r.status = 204
                  /\ q.op = "delete" /\ q.id = r.id)
                 => (q.status = 204 /\ notes' = notes)
      ]_vars

\* a note was created and then deleted
C4_Witness ==
    \E s \in DOMAIN reqs :
        /\ reqs[s].op = "delete" /\ reqs[s].status = 204
        /\ reqs[s].id = IdOf(1)
        /\ nextId >= 1
        /\ findNote(IdOf(1)) = {}
        /\ notes # {}

CredentialsMatch(r) ==
    \E u \in UserIds :
        /\ UserDoc(u).username = Val(r.username)
        /\ r.password # None
        /\ UserDoc(u).passwordHash = <<"bcrypt", Val(r.password)>>

Registered(r) == \E u \in UserIds : UserDoc(u).username = Val(r.username)

\* C5: a login with an unregistered username, or with a password that does
\* not match the stored hash, is answered 401 with an error message and no
\* token; only a login with matching credentials is answered 200, with a
\* token binding that user's username and id.
C5_LoginOutcome ==
    \A s \in DOMAIN reqs :
        LET r == reqs[s]
        IN  (r.op = "login" /\ r.pc = "done") =>
              /\ (~Registered(r) \/ ~CredentialsMatch(r))
                    => (r.status = 401 /\ r.error # None /\ r.token = None)
              /\ CredentialsMatch(r) => r.status = 200
              /\ (r.status = 200 \/ r.token # None)
                    => /\ CredentialsMatch(r)
                       /\ r.status = 200 /\ r.token # None
                       /\ JwtKey(Val(r.token)) = SECRET
                       /\ \E u \in UserIds :
                             /\ UserDoc(u).username = Val(r.username)
                             /\ JwtPayload(Val(r.token)) =
                                   [username |-> UserDoc(u).username,
                                    id |-> Some(u)]

\* C6: once a handler has sent a 400 or a 401 it does nothing more for the
\* request: no store access, no token construction, no thrown error, no
\* second response.
C6_NothingAfterErrorResponse ==
    \A s \in DOMAIN reqs : reqs[s].after = {}

\* C7: PUT /api/notes/:id answers with the updated note when the id resolves
\* and with 404, the store unchanged, when a well-formed id matches no note.
C7_PutNotFoundIs404 ==
    [][\A s \in DOMAIN reqs :
         LET q == reqs'[s]
         IN  (q.op = "put" /\ q.id \in WellFormedIds /\ q # reqs[s])
                 => IF findNote(q.id) # {}
                    THEN /\ q.status = 200
                         /\ q.notesOut = { n \in notes' : n.id = q.id }
                         /\ q.notesOut # {}
                    ELSE q.status = 404 /\ notes' = notes
      ]_vars

\* C8: every stored note has a non-empty content and an owner that is a
\* stored user.
C8_NotesWellFormed ==
    \A n \in notes :
        /\ n.content # None /\ Val(n.content) # ""
        /\ n.user # None /\ Val(n.user) \in UserIds

\* C9: GET /api/notes/:id answers 400, without a note, when the id is not
\* in the identifier format; for a well-formed id it answers 200 with the
\* note when it is stored and 404 when it is not.
C9_GetById ==
    \A s \in DOMAIN reqs :
        LET r == reqs[s]
        IN  r.op = "get" =>
              /\ r.id \in MalformedIds => (r.status = 400 /\ r.notesOut = {})
              /\ r.id \in WellFormedIds =>
                    IF \E n \in notes : n.id = r.id
                    THEN r.status = 200
                         /\ r.notesOut = { n \in notes : n.id = r.id }
                    ELSE r.status = 404 /\ r.notesOut = {}

\* the id of the repository's test, one character short
C9_Witness ==
    \E s \in DOMAIN reqs :
        /\ reqs[s].op = "get"
        /\ reqs[s].id = SubSeq(IdOf(1), 1, IdLen - 1)
        /\ reqs[s].status = 400
        /\ notes # {}

Occurrences(seq, x) == Cardinality({ i \in 1..Len(seq) : seq[i] = x })

\* C10: under any interleaving of note creations, the notes list of a user
\* holds the id of every note whose creation was answered 201, exactly
\* once.
C10_NoLostAppend ==
    \A s \in DOMAIN reqs :
        (reqs[s].op = "post" /\ reqs[s].status = 201)
            => Occurrences(users[Val(Val(reqs[s].saved).user)].notes,
                           Val(reqs[s].saved).id) = 1

====
